---- MODULE Spec2Model ----
(***************************************************************************)
(* A model of the two command-line stages of the repository:               *)
(*   amazon_csv_to_ynab.py  (conversion: raw export -> ledger-ready CSV)     *)
(*   ynab_import.py         (import: CSV -> remote ledger, skipping dups)     *)
(* Text is modelled as sequences of one-character strings, so that          *)
(* parsing, stripping, lower-casing and truncation are computed, not        *)
(* assumed.  Python's None is the empty sequence and Some(x) is <<x>>.      *)
(* Python floats are modelled as exact decimals (mantissa, number of        *)
(* fractional digits); binary rounding error is not modelled.               *)
(***************************************************************************)
EXTENDS Integers, Sequences, FiniteSets, TLC

VARIABLES
    pc,            \* position of the running program
    exit_code,     \* None while running, <<0>> or <<1>> when ended
    \* ---- _parse_date driver ----
    date_call,     \* the (format, year, month, day, padded) the input was written from
    date_input,    \* the string handed to _parse_date
    date_result,   \* what _parse_date returned
    \* ---- amazon_csv_to_ynab.main ----
    input_file,    \* None (no such file) or <<[fieldnames, rows]>>
    no_category,   \* the --no-category flag
    idx,           \* number of rows the reader has yielded so far
    date_col, amount_col, memo_col,
    rows_out, deduped,
    output_file,   \* None or <<records written>>
    \* ---- ynab_import.main ----
    config_ok,     \* the three required environment variables are set
    csv_file,      \* None (no such file) or <<rows>>
    DAYS_TOLERANCE,
    ledger,        \* the account's transactions held by the remote ledger
    remote_categories, \* the budget's category groups held by the remote ledger
    requests,      \* the remote calls received so far, in order
    category_id_map,
    csv_rows, min_csv_date, max_csv_date,
    existing_response, \* None or <<transactions returned by the fetch>>
    existing_by_amount,
    transactions_to_import, skipped_duplicates

dateVars == <<date_call, date_input, date_result>>
convVars == <<input_file, no_category, idx, date_col, amount_col, memo_col,
              rows_out, deduped, output_file>>
impVars  == <<config_ok, csv_file, DAYS_TOLERANCE, ledger, remote_categories,
              requests, category_id_map, csv_rows, min_csv_date, max_csv_date,
              existing_response, existing_by_amount, transactions_to_import,
              skipped_duplicates>>
vars == <<pc, exit_code, dateVars, convVars, impVars>>

None == <<>>
Some(x) == <<x>>

(***************************************************************************)
(* Text primitives                                                         *)
(***************************************************************************)
UpperAlpha == <<"A","B","C","D","E","F","G","H","I","J","K","L","M","N","O","P","Q","R","S","T","U","V","W","X","Y","Z">>
LowerAlpha == <<"a","b","c","d","e","f","g","h","i","j","k","l","m","n","o","p","q","r","s","t","u","v","w","x","y","z">>
DigitChars == <<"0","1","2","3","4","5","6","7","8","9">>

IndexIn(c, alphabet) ==
    IF \E i \in 1..Len(alphabet) : alphabet[i] = c
    THEN CHOOSE i \in 1..Len(alphabet) : alphabet[i] = c
    ELSE 0

UpperToLower == [c \in { UpperAlpha[i] : i \in 1..Len(UpperAlpha) } |->
                    LowerAlpha[IndexIn(c, UpperAlpha)]]

\* str.lower() on one character
LowerChar(c) == IF c \in DOMAIN UpperToLower THEN UpperToLower[c] ELSE c

\* str.lower()
Lower(s) == SubSeq([i \in 1..Len(s) |-> LowerChar(s[i])], 1, Len(s))

IsDigit(c) == IndexIn(c, DigitChars) > 0
DigitVal(c) == IndexIn(c, DigitChars) - 1
AllDigits(s) == \A i \in 1..Len(s) : IsDigit(s[i])

RECURSIVE ToNat(_)
\* int() of a run of decimal digits
ToNat(s) == IF Len(s) = 0 THEN 0
            ELSE 10 * ToNat(SubSeq(s, 1, Len(s) - 1)) + DigitVal(s[Len(s)])

RECURSIVE NatToStr(_)
\* str() of a natural number
NatToStr(n) == IF n < 10 THEN <<DigitChars[n + 1]>>
               ELSE NatToStr(n \div 10) \o <<DigitChars[(n % 10) + 1]>>

RECURSIVE zfill(_, _)
\* str.zfill(width)
zfill(s, width) == IF Len(s) >= width THEN s ELSE zfill(<<"0">> \o s, width)

IsSpace(c) == c = " "

RECURSIVE LStrip(_)
LStrip(s) == IF Len(s) > 0 /\ IsSpace(s[1]) THEN LStrip(Tail(s)) ELSE s
RECURSIVE RStrip(_)
RStrip(s) == IF Len(s) > 0 /\ IsSpace(s[Len(s)]) THEN RStrip(SubSeq(s, 1, Len(s) - 1)) ELSE s
\* str.strip()
Strip(s) == RStrip(LStrip(s))

\* s[:n]
Prefix(s, n) == IF Len(s) <= n THEN s ELSE SubSeq(s, 1, n)

\* the text k occurs in s at position i
OccursAt(k, s, i) == /\ i + Len(k) - 1 <= Len(s)
                     /\ \A j \in 1..Len(k) : s[i + j - 1] = k[j]

\* k in s
Contains(k, s) == \E i \in 1..(Len(s) - Len(k) + 1) : OccursAt(k, s, i)

RECURSIVE Remove(_, _)
\* s.replace(k, "") for a non-empty k: leftmost occurrences, not overlapping
Remove(s, k) ==
    IF Len(s) = 0 THEN s
    ELSE IF OccursAt(k, s, 1) THEN Remove(SubSeq(s, Len(k) + 1, Len(s)), k)
    ELSE <<s[1]>> \o Remove(Tail(s), k)

\* a text of n copies of the character c
Rep(c, n) == SubSeq([i \in 1..n |-> c], 1, n)

(***************************************************************************)
(* Calendar (datetime.date)                                                *)
(***************************************************************************)
IsLeap(y) == (y % 4 = 0) /\ ((y % 100 # 0) \/ (y % 400 = 0))
DaysInMonth(y, m) ==
    IF m = 2 THEN (IF IsLeap(y) THEN 29 ELSE 28)
    ELSE IF m \in {4, 6, 9, 11} THEN 30 ELSE 31

RECURSIVE DaysBeforeMonth(_, _)
DaysBeforeMonth(y, m) == IF m = 1 THEN 0
                         ELSE DaysBeforeMonth(y, m - 1) + DaysInMonth(y, m - 1)

\* date.toordinal(): the proleptic Gregorian day number
ToOrdinal(dt) ==
    LET y1 == dt.y - 1
    IN  y1 * 365 + (y1 \div 4) - (y1 \div 100) + (y1 \div 400)
        + DaysBeforeMonth(dt.y, dt.m) + dt.d

\* datetime(y, m, d) raises ValueError unless this holds
ValidDate(dt) == /\ dt.y >= 1 /\ dt.m \in 1..12
                 /\ dt.d >= 1 /\ dt.d <= DaysInMonth(dt.y, dt.m)

MonthNames == << <<"j","a","n","u","a","r","y">>, <<"f","e","b","r","u","a","r","y">>, <<"m","a","r","c","h">>, <<"a","p","r","i","l">>, <<"m","a","y">>, <<"j","u","n","e">>, <<"j","u","l","y">>,
                 <<"a","u","g","u","s","t">>, <<"s","e","p","t","e","m","b","e","r">>, <<"o","c","t","o","b","e","r">>, <<"n","o","v","e","m","b","e","r">>, <<"d","e","c","e","m","b","e","r">> >>
MonthAbbr(m) == SubSeq(MonthNames[m], 1, 3)

(***************************************************************************)
(* datetime.strptime / strftime                                            *)
(***************************************************************************)
\* The formats tried by _parse_date, as sequences of directives, literal
\* characters and "ws" (a blank of the format, which strptime compiles to \s+).
FmtISO      == <<"%Y", "-", "%m", "-", "%d">>
FmtUS       == <<"%m", "/", "%d", "/", "%Y">>
FmtDayFirst == <<"%d", "/", "%m", "/", "%Y">>
Fmt_b_d_Y   == <<"%b", "ws", "%d", ",", "ws", "%Y">>
Fmt_B_d_Y   == <<"%B", "ws", "%d", ",", "ws", "%Y">>
Fmt_d_b_Y   == <<"%d", "ws", "%b", "ws", "%Y">>
Fmt_d_B_Y   == <<"%d", "ws", "%B", "ws", "%Y">>

\* the texts the regular expression of %m accepts at position i: 1[0-2]|0[1-9]|[1-9]
MonthFieldLens(s, i) ==
    { n \in {1, 2} :
        /\ i + n - 1 <= Len(s)
        /\ AllDigits(SubSeq(s, i, i + n - 1))
        /\ ToNat(SubSeq(s, i, i + n - 1)) \in 1..12
        /\ (n = 1 => s[i] # "0") }

\* %d: 3[0-1]|[1-2]\d|0[1-9]|[1-9]| [1-9]
DayFieldLens(s, i) ==
    { n \in {1, 2} :
        /\ i + n - 1 <= Len(s)
        /\ \/ /\ AllDigits(SubSeq(s, i, i + n - 1))
              /\ ToNat(SubSeq(s, i, i + n - 1)) \in 1..31
              /\ (n = 1 => s[i] # "0")
           \/ /\ n = 2 /\ s[i] = " " /\ IsDigit(s[i + 1]) /\ s[i + 1] # "0" }

DayFieldVal(t) == IF t[1] = " " THEN ToNat(Tail(t)) ELSE ToNat(t)

\* lengths of the runs of blanks starting at i (\s+ with backtracking)
RECURSIVE BlankRun(_, _)
BlankRun(s, i) == IF i <= Len(s) /\ IsSpace(s[i]) THEN 1 + BlankRun(s, i + 1) ELSE 0

RECURSIVE StrptimeFrom(_, _, _, _, _)
\* every way the format, from directive fi on, matches s from position si on
\* to its end; acc carries the fields converted so far
StrptimeFrom(fmt, s, fi, si, acc) ==
    IF fi > Len(fmt)
    THEN (IF si > Len(s) THEN {acc} ELSE {})
    ELSE LET it == fmt[fi] IN
      IF it = "%Y" THEN
          IF si + 3 <= Len(s) /\ AllDigits(SubSeq(s, si, si + 3))
          THEN StrptimeFrom(fmt, s, fi + 1, si + 4,
                            [acc EXCEPT !.y = ToNat(SubSeq(s, si, si + 3))])
          ELSE {}
      ELSE IF it = "%m" THEN
          UNION { StrptimeFrom(fmt, s, fi + 1, si + n,
                               [acc EXCEPT !.m = ToNat(SubSeq(s, si, si + n - 1))])
                  : n \in MonthFieldLens(s, si) }
      ELSE IF it = "%d" THEN
          UNION { StrptimeFrom(fmt, s, fi + 1, si + n,
                               [acc EXCEPT !.d = DayFieldVal(SubSeq(s, si, si + n - 1))])
                  : n \in DayFieldLens(s, si) }
      ELSE IF it = "%b" THEN
          UNION { StrptimeFrom(fmt, s, fi + 1, si + 3, [acc EXCEPT !.m = m])
                  : m \in { k \in 1..12 :
                              /\ si + 2 <= Len(s)
                              /\ Lower(SubSeq(s, si, si + 2)) = MonthAbbr(k) } }
      ELSE IF it = "%B" THEN
          UNION { StrptimeFrom(fmt, s, fi + 1, si + Len(MonthNames[m]), [acc EXCEPT !.m = m])
                  : m \in { k \in 1..12 :
                              /\ si + Len(MonthNames[k]) - 1 <= Len(s)
                              /\ Lower(SubSeq(s, si, si + Len(MonthNames[k]) - 1))
                                    = MonthNames[k] } }
      ELSE IF it = "ws" THEN
          UNION { StrptimeFrom(fmt, s, fi + 1, si + n, acc) : n \in 1..BlankRun(s, si) }
      ELSE IF si <= Len(s) /\ s[si] = it
          THEN StrptimeFrom(fmt, s, fi + 1, si + 1, acc)
          ELSE {}

\* datetime.strptime(s, fmt): Some(date), or None where Python raises ValueError.
\* strptime defaults year, month and day to 1900, 1, 1.
strptime(s, fmt) ==
    LET found == { dt \in StrptimeFrom(fmt, s, 1, 1, [y |-> 1900, m |-> 1, d |-> 1]) :
                     ValidDate(dt) }
    IN  IF found = {} THEN None ELSE Some(CHOOSE dt \in found : TRUE)

\* date.strftime("%Y-%m-%d") and date.isoformat()
strftime_iso(dt) == zfill(NatToStr(dt.y), 4) \o <<"-">> \o zfill(NatToStr(dt.m), 2)
                    \o <<"-">> \o zfill(NatToStr(dt.d), 2)

(***************************************************************************)
(* amazon_csv_to_ynab._parse_date                                          *)
(***************************************************************************)
\* not the code's order: a format list that tries %d/%m/%Y before %m/%d/%Y
DateFormatsDayFirstBeforeUS ==
    <<FmtISO, FmtDayFirst, FmtUS, Fmt_b_d_Y, Fmt_B_d_Y, Fmt_d_b_Y, Fmt_d_B_Y>>

\* the formats of _parse_date, in the order they are tried
DateFormats == <<FmtISO, FmtUS, FmtDayFirst, Fmt_b_d_Y, Fmt_B_d_Y, Fmt_d_b_Y, Fmt_d_B_Y>>

\* re.search(r"(\d{4})-(\d{2})-(\d{2})", s): the positions where it matches
IsoPatternAt(s, i) ==
    /\ i + 9 <= Len(s)
    /\ AllDigits(SubSeq(s, i, i + 3)) /\ s[i + 4] = "-"
    /\ AllDigits(SubSeq(s, i + 5, i + 6)) /\ s[i + 7] = "-"
    /\ AllDigits(SubSeq(s, i + 8, i + 9))

\* re.search(r"(\d{1,2})/(\d{1,2})/(\d{4})", s): a match at i whose first two
\* groups have n1 and n2 digits
UsPatternAt(s, i, n1, n2) ==
    /\ i + n1 + n2 + 5 <= Len(s)
    /\ AllDigits(SubSeq(s, i, i + n1 - 1)) /\ s[i + n1] = "/"
    /\ AllDigits(SubSeq(s, i + n1 + 1, i + n1 + n2)) /\ s[i + n1 + n2 + 1] = "/"
    /\ AllDigits(SubSeq(s, i + n1 + n2 + 2, i + n1 + n2 + 5))

UsPatternStarts(s) ==
    { i \in 1..Len(s) : \E n1 \in {1, 2}, n2 \in {1, 2} : UsPatternAt(s, i, n1, n2) }

Least(S) == CHOOSE i \in S : \A j \in S : i <= j

RegexFallback(s) ==
    LET isoStarts == { i \in 1..Len(s) : IsoPatternAt(s, i) } IN
    IF isoStarts # {}
    THEN LET i == Least(isoStarts)
         IN  Some(SubSeq(s, i, i + 3) \o <<"-">> \o SubSeq(s, i + 5, i + 6)
                  \o <<"-">> \o SubSeq(s, i + 8, i + 9))
    ELSE IF UsPatternStarts(s) # {}
    THEN LET i  == Least(UsPatternStarts(s))
             ns == CHOOSE p \in {1, 2} \X {1, 2} : UsPatternAt(s, i, p[1], p[2])
             n1 == ns[1]
             n2 == ns[2]
         IN  Some(SubSeq(s, i + n1 + n2 + 2, i + n1 + n2 + 5) \o <<"-">>
                  \o zfill(SubSeq(s, i, i + n1 - 1), 2) \o <<"-">>
                  \o zfill(SubSeq(s, i + n1 + 1, i + n1 + n2), 2))
    ELSE None

RECURSIVE TryFormats(_, _, _)
\* the for loop over the formats: the first format strptime accepts wins
TryFormats(s, fmts, k) ==
    IF k > Len(fmts) THEN RegexFallback(s)
    ELSE IF strptime(s, fmts[k]) # None
         THEN Some(strftime_iso(strptime(s, fmts[k])[1]))
         ELSE TryFormats(s, fmts, k + 1)

\* _parse_date(s): Some(text) or None.  A missing cell (None) is <<>> as well.
_parse_date(s) ==
    IF Len(s) = 0 \/ Len(Strip(s)) = 0 THEN None
    ELSE TryFormats(Strip(s), DateFormats, 1)

(***************************************************************************)
(* amazon_csv_to_ynab: constants                                           *)
(***************************************************************************)
PAYEE == <<"A","m","a","z","o","n",".","c","a">>
DEFAULT_CATEGORY == <<"U","n","c","a","t","e","g","o","r","i","z","e","d">>

\* the ordered rules of auto-categorization
CATEGORY_KEYWORDS ==
    << 
       [cat |-> <<"K","i","d","s"," ","S","u","p","p","l","i","e","s">>,
        keywords |-> << <<"k","i","d">>, <<"b","a","b","y">>, <<"t","o","d","d","l","e","r">>, <<"d","i","a","p","e","r">>, <<"c","r","i","b">>, <<"s","t","r","o","l","l","e","r">>, <<"b","o","o","k">>,
                     <<"t","o","y">>, <<"m","a","g","n","e","t","i","c"," ","t","i","l","e","s">>, <<"p","a","t","-","a","-","c","a","k","e">>, <<"o","o","b","l","e","c","k">>,
                     <<"b","a","r","t","h","o","l","o","m","e","w">> >>],
       [cat |-> <<"H","o","m","e"," ","M","a","i","n","t","e","n","a","n","c","e"," ","&"," ","D","e","c","o","r">>,
        keywords |-> << <<"f","i","l","t","e","r">>, <<"f","u","r","n","i","t","u","r","e">>, <<"o","t","t","o","m","a","n">>, <<"c","o","f","f","e","e"," ","t","a","b","l","e">>, <<"l","i","g","h","t"," ","b","u","l","b">>,
                     <<"d","i","m","m","e","r">>, <<"s","c","r","e","w","d","r","i","v","e","r">>, <<"s","c","i","s","s","o","r","s">>, <<"s","p","l","a","t","t","e","r">>,
                     <<"b","e","d"," ","r","a","i","l">> >>],
       [cat |-> <<"P","e","r","s","o","n","a","l"," ","C","a","r","e">>,
        keywords |-> << <<"c","e","r","a","v","e">>, <<"b","a","b","y"," ","w","a","s","h">>, <<"s","h","a","m","p","o","o">>, <<"s","k","i","n","c","a","r","e">>, <<"m","a","k","e","u","p">>, <<"s","o","a","p">> >>],
       [cat |-> <<"W","a","r","d","r","o","b","e">>,
        keywords |-> << <<"s","l","i","p","p","e","r">>, <<"u","g","g">>, <<"s","h","o","e","s">>, <<"c","l","o","t","h","e","s">>, <<"g","a","i","t","e","r","s">> >>],
       [cat |-> <<"S","u","b","s","c","r","i","p","t","i","o","n","s"," ","(","M","o","n","t","h","l","y",")">>,
        keywords |-> << <<"p","r","i","m","e"," ","v","i","d","e","o">>, <<"a","d"," ","f","r","e","e">>, <<"s","u","b","s","c","r","i","p","t","i","o","n">>, <<"a","p","p","s","t","o","r","e">>, <<"v","i","m","u">> >>],
       [cat |-> <<"G","i","f","t","s"," ","&"," ","G","i","v","i","n","g">>,
        keywords |-> << <<"g","i","f","t"," ","c","a","r","d">>, <<"e","g","i","f","t">>, <<"g","i","n","g","e","r","b","r","e","a","d">> >>],
       [cat |-> <<"R","e","t","r","e","a","t","s">>,
        keywords |-> << <<"b","u","d","d","h","i","s","m">>, <<"v","a","j","r","a","y","a","n","a">>, <<"d","a","n","g","e","r","o","u","s"," ","f","r","i","e","n","d">>, <<"d","h","a","r","m","a">> >>],
       [cat |-> <<"F","i","t","n","e","s","s"," ","&"," ","C","o","a","c","h","i","n","g">>,
        keywords |-> << <<"g","y","m">>, <<"p","h","o","n","e"," ","h","o","l","d","e","r">>, <<"f","i","t","n","e","s","s">>, <<"c","o","a","c","h","i","n","g">> >>],
       [cat |-> <<"G","r","o","c","e","r","i","e","s">>,
        keywords |-> << <<"g","l","a","d">>, <<"g","a","r","b","a","g","e"," ","b","a","g">>, <<"g","r","o","c","e","r">> >>] >>

DATE_COLUMNS ==
    << <<"o","r","d","e","r",".","d","a","t","e">>, <<"o","r","d","e","r"," ","d","a","t","e">>, <<"o","r","d","e","r","_","d","a","t","e">>, <<"d","a","t","e">>, <<"o","r","d","e","r"," ","p","l","a","c","e","d">>,
       <<"c","h","a","r","g","e","d"," ","o","n">> >>
AMOUNT_COLUMNS ==
    << <<"o","r","d","e","r",".","t","o","t","a","l">>, <<"o","r","d","e","r"," ","t","o","t","a","l">>, <<"o","r","d","e","r","_","t","o","t","a","l">>, <<"i","t","e","m"," ","t","o","t","a","l">>,
       <<"i","t","e","m",".","t","o","t","a","l">>, <<"t","o","t","a","l">>, <<"a","m","o","u","n","t">>, <<"p","r","i","c","e">> >>
MEMO_COLUMNS ==
    << <<"i","t","e","m",".","t","i","t","l","e">>, <<"i","t","e","m"," ","t","i","t","l","e">>, <<"i","t","e","m","_","t","i","t","l","e">>, <<"t","i","t","l","e">>, <<"p","r","o","d","u","c","t">>,
       <<"d","e","s","c","r","i","p","t","i","o","n">>, <<"i","t","e","m">>, <<"m","e","m","o">>, <<"o","r","d","e","r",".","i","t","e","m","s">> >>

(***************************************************************************)
(* A driver for _parse_date: a calendar date written in one of the         *)
(* supported formats, or some other text, is handed to it.                 *)
(***************************************************************************)
Years == {2023, 2024}
FormatNames == {"iso", "us", "dayfirst", "b_d_Y", "B_d_Y", "d_b_Y", "d_B_Y"}

DateCalls ==
    { c \in [fmt : FormatNames, y : Years, m : 1..12, d : 1..31, padded : BOOLEAN] :
        c.d <= DaysInMonth(c.y, c.m) }

Capitalize(s) == <<UpperAlpha[IndexIn(s[1], LowerAlpha)]>> \o Tail(s)
Num(n, padded) == IF padded THEN zfill(NatToStr(n), 2) ELSE NatToStr(n)

\* the date of the call written in the format of the call
WriteDate(c) ==
    LET Y == NatToStr(c.y)
        M == Num(c.m, c.padded)
        D == Num(c.d, c.padded)
        b == Capitalize(MonthAbbr(c.m))
        B == Capitalize(MonthNames[c.m])
    IN  CASE c.fmt = "iso"      -> Y \o <<"-">> \o M \o <<"-">> \o D
          [] c.fmt = "us"       -> M \o <<"/">> \o D \o <<"/">> \o Y
          [] c.fmt = "dayfirst" -> D \o <<"/">> \o M \o <<"/">> \o Y
          [] c.fmt = "b_d_Y"    -> b \o <<" ">> \o D \o <<","," ">> \o Y
          [] c.fmt = "B_d_Y"    -> B \o <<" ">> \o D \o <<","," ">> \o Y
          [] c.fmt = "d_b_Y"    -> D \o <<" ">> \o b \o <<" ">> \o Y
          [] c.fmt = "d_B_Y"    -> D \o <<" ">> \o B \o <<" ">> \o Y

\* texts that are no date in a supported format
RawDateTexts == { <<>>, <<" "," ">>, <<"N","/","A">>, <<"1","3","/","4","5","/","2","0","2","4">>, <<"S","h","i","p","p","e","d"," ","2","0","2","4","-","1","3","-","4","5">>, <<"M","a","r"," ","5",",","2","0","2","4">>,
                  <<"1","2","3","/","4","/","2","0","2","4","5">>, <<" ","2","0","2","4","-","0","3","-","1","0"," ">>, <<"2","0","2","4","-","0","2","-","3","0">> }
RawCall == [fmt |-> "raw", y |-> 0, m |-> 0, d |-> 0, padded |-> FALSE]

InitDate ==
    /\ pc = "parse_date"
    /\ exit_code = None
    /\ \/ /\ date_call \in DateCalls
          /\ date_input = WriteDate(date_call)
       \/ /\ date_call = RawCall
          /\ date_input \in RawDateTexts
    /\ date_result = None
    /\ input_file = None /\ no_category = FALSE /\ idx = 0
    /\ date_col = None /\ amount_col = None /\ memo_col = None
    /\ rows_out = <<>> /\ deduped = <<>> /\ output_file = None
    /\ config_ok = FALSE /\ csv_file = None /\ DAYS_TOLERANCE = 0
    /\ ledger = <<>> /\ remote_categories = <<>> /\ requests = <<>>
    /\ category_id_map = <<>> /\ csv_rows = <<>>
    /\ min_csv_date = None /\ max_csv_date = None
    /\ existing_response = None /\ existing_by_amount = <<>>
    /\ transactions_to_import = <<>> /\ skipped_duplicates = 0

ParseDateCall ==
    /\ pc = "parse_date"
    /\ date_result' = _parse_date(date_input)
    /\ pc' = "parse_date_returned"
    /\ UNCHANGED <<exit_code, date_call, date_input, convVars, impVars>>

NextDate == ParseDateCall

SpecDate == InitDate /\ [][NextDate]_vars

\* the canonical YYYY-MM-DD text of a calendar date
CanonicalText(y, m, d) ==
    << DigitChars[((y \div 1000) % 10) + 1], DigitChars[((y \div 100) % 10) + 1],
       DigitChars[((y \div 10) % 10) + 1], DigitChars[(y % 10) + 1], "-",
       DigitChars[(m \div 10) + 1], DigitChars[(m % 10) + 1], "-",
       DigitChars[(d \div 10) + 1], DigitChars[(d % 10) + 1] >>

AmbiguousDayFirst(c) == c.fmt = "dayfirst" /\ c.d <= 12 /\ c.d # c.m

\* C7 (as stated): every valid calendar date, written in any supported
\* format, is normalised by _parse_date to the canonical YYYY-MM-DD text of
\* that same date.
C7_FormatIndependent ==
    (pc = "parse_date_returned" /\ date_call.fmt # "raw")
        => date_result = Some(CanonicalText(date_call.y, date_call.m, date_call.d))

\* C7 (amended): the canonical text of the same date is returned for every
\* supported format except a day-first DD/MM/YYYY text whose day is 12 or
\* less and differs from the month; that text is read as MM/DD/YYYY and the
\* canonical text of the date with day and month exchanged is returned.
C7_FormatIndependentExceptAmbiguous ==
    (pc = "parse_date_returned" /\ date_call.fmt # "raw")
        => IF AmbiguousDayFirst(date_call)
           THEN date_result = Some(CanonicalText(date_call.y, date_call.d, date_call.m))
           ELSE date_result = Some(CanonicalText(date_call.y, date_call.m, date_call.d))

\* C7 witness: a day-first text with a day above 12 has been normalised to
\* its own date.
C7_Witness ==
    /\ pc = "parse_date_returned"
    /\ date_call.fmt = "dayfirst" /\ date_call.d > 12
    /\ date_result = Some(CanonicalText(date_call.y, date_call.m, date_call.d))

(***************************************************************************)
(* amazon_csv_to_ynab: helpers                                             *)
(***************************************************************************)
\* k.replace(" ", "").replace(".", "")
Squeeze(s) == Remove(Remove(s, <<" ">>), <<".">>)

RECURSIVE KeysLowerFrom(_, _, _)
\* {k.strip().lower(): k for k in keys}, as the sequence of its items in
\* insertion order: a later key with the same normal form replaces the value
KeysLowerFrom(keys, i, acc) ==
    IF i > Len(keys) THEN acc
    ELSE LET norm == Lower(Strip(keys[i]))
             at   == { p \in 1..Len(acc) : acc[p].norm = norm }
         IN  IF at = {}
             THEN KeysLowerFrom(keys, i + 1, Append(acc, [norm |-> norm, orig |-> keys[i]]))
             ELSE KeysLowerFrom(keys, i + 1,
                                [acc EXCEPT ![Least(at)].orig = keys[i]])

\* the two passes of _find_column over the items of keys_lower
FindInKeys(keys_lower, candidates) ==
    LET exact   == { c \in 1..Len(candidates) :
                       \E p \in 1..Len(keys_lower) :
                           keys_lower[p].norm = Lower(candidates[c]) }
        partial == { c \in 1..Len(candidates) :
                       \E p \in 1..Len(keys_lower) :
                           Contains(Squeeze(candidates[c]), Squeeze(keys_lower[p].norm)) }
    IN  IF exact # {}
        THEN LET c == Least(exact)
                 p == CHOOSE q \in 1..Len(keys_lower) :
                          keys_lower[q].norm = Lower(candidates[c])
             IN  Some(keys_lower[p].orig)
        ELSE IF partial # {}
        THEN LET c == Least(partial)
                 p == Least({ q \in 1..Len(keys_lower) :
                                Contains(Squeeze(candidates[c]), Squeeze(keys_lower[q].norm)) })
             IN  Some(keys_lower[p].orig)
        ELSE None

\* _find_column(row_dict, candidates), given the keys of row_dict in order
_find_column(keys, candidates) ==
    CHOOSE col \in { FindInKeys(keys_lower, candidates) :
                       keys_lower \in { KeysLowerFrom(keys, 1, <<>>) } } : TRUE

\* A decimal number: mantissa n and k fractional digits, k as small as possible
RECURSIVE Normalize(_, _)
Normalize(n, k) == IF k > 0 /\ n % 10 = 0 THEN Normalize(n \div 10, k - 1)
                   ELSE [n |-> n, k |-> k]

\* float(s) for plain decimal notation: [sign] digits [. digits] or
\* [sign] . digits, blanks around it allowed; None where float() raises
\* ValueError.  The value is kept as an exact decimal: the inputs of this
\* model are amounts a binary float holds, or multiplies by 1000, without a
\* visible rounding error.  (Exponents, inf, nan and underscores are not
\* modelled.)
float(s0) ==
    LET s     == Strip(s0)
        neg   == Len(s) > 0 /\ s[1] = "-"
        body  == IF Len(s) > 0 /\ s[1] \in {"-", "+"} THEN Tail(s) ELSE s
        dots  == { i \in 1..Len(body) : body[i] = "." }
        ip    == IF dots = {} THEN body ELSE SubSeq(body, 1, Least(dots) - 1)
        fp    == IF dots = {} THEN <<>> ELSE SubSeq(body, Least(dots) + 1, Len(body))
        ok    == /\ Cardinality(dots) <= 1
                 /\ AllDigits(ip) /\ AllDigits(fp)
                 /\ Len(ip) + Len(fp) > 0
        mant  == ToNat(ip \o fp)
    IN  IF ~ok THEN None
        ELSE Some(Normalize(IF neg THEN 0 - mant ELSE mant, Len(fp)))

\* _parse_amount(s): Some(number) or None
_parse_amount(s) ==
    IF Len(s) = 0 \/ Len(Strip(s)) = 0 THEN None
    ELSE float(Strip(Remove(Remove(Remove(Strip(s), <<",">>), <<"$">>), <<"C","A","D">>)))

Abs(n) == IF n < 0 THEN 0 - n ELSE n

\* kw.lower() for every keyword of every rule
KeywordsLower ==
    [r \in 1..Len(CATEGORY_KEYWORDS) |->
        [k \in 1..Len(CATEGORY_KEYWORDS[r].keywords) |->
            Lower(CATEGORY_KEYWORDS[r].keywords[k])]]

\* _categorize(memo): the category of the first rule one of whose keywords
\* occurs in the lower-cased memo
_categorize(memo) ==
    LET hits == { r \in 1..Len(CATEGORY_KEYWORDS) :
                    \E m \in { Lower(memo) } :
                        \E k \in 1..Len(KeywordsLower[r]) :
                            Contains(KeywordsLower[r][k], m) }
    IN  IF hits = {} THEN DEFAULT_CATEGORY ELSE CATEGORY_KEYWORDS[Least(hits)].cat

\* memo length kept by main
MEMO_MAX == 500
\* memo length that enters the deduplication key
KEY_MEMO_LEN == 100

REFUND_WORDS == << <<"r","e","t","u","r","n">>, <<"r","e","f","u","n","d">>, <<"r","e","i","m","b","u","r","s","e","m","e","n","t">> >>

\* row.get(col, ""): the cell of the row under the column; a missing cell
\* and the empty text are both <<>>
RowGet(fieldnames, row, col) ==
    IF col = None THEN <<>>
    ELSE LET at == { i \in 1..Len(fieldnames) : fieldnames[i] = col[1] }
         IN  IF at = {} THEN <<>>
             ELSE LET i == CHOOSE j \in at : \A h \in at : h <= j
                  IN  IF i <= Len(row) THEN row[i] ELSE <<>>

\* any(x in memo_str.lower() for x in ["return", "refund", "reimbursement"])
HasRefundWord(memo_str) ==
    \E m \in { Lower(memo_str) } :
        \E w \in 1..Len(REFUND_WORDS) : Contains(REFUND_WORDS[w], m)

\* not the code's rule: the amount stored with the sign it was parsed with
SignedAmountKeepSign(amount_val, memo_str) == amount_val

\* lines 137-144: negative = outflow, positive = inflow (refund)
SignedAmount(amount_val, memo_str) ==
    IF amount_val.n > 0 /\ HasRefundWord(memo_str)
    THEN amount_val
    ELSE IF amount_val.n # 0 THEN [amount_val EXCEPT !.n = 0 - Abs(amount_val.n)]
         ELSE [n |-> 0, k |-> 0]

\* lines 146-155: the record appended for a row whose date and amount parsed
MakeRecord(date_str, amount_val, memo_str, nocat) ==
    [ Date     |-> date_str,
      Payee    |-> PAYEE,
      Memo     |-> IF Len(memo_str) > 0 THEN memo_str ELSE <<"O","r","d","e","r"," ">> \o date_str,
      Amount   |-> SignedAmount(amount_val, memo_str),
      Category |-> IF nocat THEN <<>> ELSE _categorize(memo_str) ]

\* lines 130-155: the record built from a row, or None when the row is skipped.
\* (The three values are bound once, as the local variables of the loop are.)
BuildRecord(fieldnames, row, dcol, acol, mcol, nocat) ==
    CHOOSE rec \in
        { IF date_str = None \/ amount_val = None THEN None
          ELSE Some(MakeRecord(date_str[1], amount_val[1], memo_str, nocat)) :
            date_str   \in { _parse_date(RowGet(fieldnames, row, dcol)) },
            amount_val \in { _parse_amount(RowGet(fieldnames, row, acol)) },
            memo_str   \in { Prefix(Strip(RowGet(fieldnames, row, mcol)), MEMO_MAX) } } : TRUE

\* not the code's loop: a row that does not parse discards the records so far
AppendRecordOrReset(out, rec) == IF rec = None THEN <<>> ELSE Append(out, Head(rec))

\* lines 134-135 and 147: a row that did not parse is passed over (continue),
\* any other row's record is appended to rows_out
AppendRecord(out, rec) == IF rec = None THEN out ELSE Append(out, Head(rec))

\* not the code's key: the whole memo instead of its first 100 characters
DedupKeyWholeMemo(r) == <<r.Date, r.Amount, r.Memo>>

\* line 161: the deduplication key of a record
DedupKey(r) == <<r.Date, r.Amount, Prefix(r.Memo, KEY_MEMO_LEN)>>

RECURSIVE DedupFrom(_, _, _)
\* lines 158-164: keep the first record of each key
DedupFrom(rs, i, acc) ==
    IF i > Len(rs) THEN acc
    ELSE IF \E j \in 1..Len(acc) : DedupKey(acc[j]) = DedupKey(rs[i])
         THEN DedupFrom(rs, i + 1, acc)
         ELSE DedupFrom(rs, i + 1, Append(acc, rs[i]))

(***************************************************************************)
(* amazon_csv_to_ynab.main                                                 *)
(***************************************************************************)
\* the largest number of data rows of an input file
MaxRows == 2

HeaderChoices ==
    { << <<"O","r","d","e","r"," ","D","a","t","e">>, <<"I","t","e","m"," ","T","o","t","a","l">>, <<"I","t","e","m"," ","T","i","t","l","e">> >>,
      << <<" ","O","r","d","e","r",".","D","a","t","e"," ">>, <<"T","o","t","a","l"," ","C","h","a","r","g","e","d">>, <<"P","r","o","d","u","c","t"," ","N","a","m","e">> >>,
      << <<"o","r","d","e","r"," ","d","a","t","e">>, <<"t","o","t","a","l">>, <<"n","o","t","e","s">> >>,
      << <<"w","h","e","n">>, <<"t","o","t","a","l">>, <<"t","i","t","l","e">> >>,
      << <<"o","r","d","e","r"," ","d","a","t","e">>, <<"c","o","s","t">>, <<"t","i","t","l","e">> >> }

RowChoices ==
    { << <<"2","0","2","4","-","0","3","-","1","0">>, <<"$","5","0",".","0","0">>, <<"k","i","d"," ","t","o","y">> >>,
      << <<"0","3","/","1","1","/","2","0","2","4">>, <<"$","5","0",".","0","0">>, <<"k","i","d"," ","t","o","y">> >>,
      << <<"2","0","2","4","-","0","3","-","1","0">>, <<"5","0",".","0","0">>, <<"R","e","f","u","n","d">> >>,
      << <<"0","3","/","1","0","/","2","0","2","4">>, <<"-","5","0",".","0","0">>, <<"R","e","f","u","n","d">> >>,
      << <<"2","0","2","4","-","0","3","-","1","0">>, <<"0",".","0","0"," ","C","A","D">>, <<"t","o","y">> >>,
      << <<"2","0","2","4","-","0","3","-","1","0">>, <<"N","/","A">>, <<"t","o","y">> >>,
      << <<"N","/","A">>, <<"1",",","2","5","0",".","0","0">>, <<"t","o","y">> >>,
      << <<"2","0","2","4","-","0","3","-","1","0">>, <<"$","5","0",".","0","0">>, Rep("a", 100) \o <<"b">> >>,
      << <<"2","0","2","4","-","0","3","-","1","0">>, <<"$","5","0",".","0","0">>, Rep("a", 497) \o <<"r","e","f","u","n","d">> >> }

RowSeqs == UNION { [1..n -> RowChoices] : n \in 0..MaxRows }

InputFiles == { [fieldnames |-> h, rows |-> rs] : h \in HeaderChoices, rs \in RowSeqs }

InitConvert ==
    /\ pc = "start"
    /\ exit_code = None
    /\ input_file \in {None} \cup { Some(f) : f \in InputFiles }
    /\ no_category \in BOOLEAN
    /\ idx = 0
    /\ date_col = None /\ amount_col = None /\ memo_col = None
    /\ rows_out = <<>> /\ deduped = <<>> /\ output_file = None
    /\ date_call = RawCall /\ date_input = <<>> /\ date_result = None
    /\ config_ok = FALSE /\ csv_file = None /\ DAYS_TOLERANCE = 0
    /\ ledger = <<>> /\ remote_categories = <<>> /\ requests = <<>>
    /\ category_id_map = <<>> /\ csv_rows = <<>>
    /\ min_csv_date = None /\ max_csv_date = None
    /\ existing_response = None /\ existing_by_amount = <<>>
    /\ transactions_to_import = <<>> /\ skipped_duplicates = 0

\* lines 96-99: the input path is no file
InputMissing ==
    /\ pc = "start" /\ input_file = None
    /\ exit_code' = Some(1)
    /\ pc' = "exited"
    /\ UNCHANGED <<dateVars, convVars, impVars>>

\* lines 101-108: the input file is opened and its header read
OpenInput ==
    /\ pc = "start" /\ input_file # None
    /\ pc' = "reading"
    /\ UNCHANGED <<exit_code, dateVars, convVars, impVars>>

\* lines 109-155: one iteration of the loop over the rows
ReadRow ==
    /\ pc = "reading" /\ idx < Len(input_file[1].rows)
    /\ \E fieldnames \in { input_file[1].fieldnames },
          row \in { input_file[1].rows[idx + 1] },
          dcol \in { IF date_col = None
                     THEN _find_column(input_file[1].fieldnames, DATE_COLUMNS)
                     ELSE date_col },
          acol \in { IF date_col = None
                     THEN _find_column(input_file[1].fieldnames, AMOUNT_COLUMNS)
                     ELSE amount_col },
          mcol \in { IF date_col = None
                     THEN _find_column(input_file[1].fieldnames, MEMO_COLUMNS)
                     ELSE memo_col } :
           /\ idx' = idx + 1
           /\ date_col' = dcol /\ amount_col' = acol /\ memo_col' = mcol
           /\ IF dcol = None \/ acol = None
              THEN /\ exit_code' = Some(1)
                   /\ pc' = "exited"
                   /\ UNCHANGED rows_out
              ELSE /\ \E rec \in { BuildRecord(fieldnames, row, dcol, acol, mcol,
                                                no_category) } :
                        rows_out' = AppendRecord(rows_out, rec)
                   /\ UNCHANGED <<pc, exit_code>>
    /\ UNCHANGED <<dateVars, input_file, no_category, deduped, output_file, impVars>>

\* the reader is exhausted and the file closed
EndOfRows ==
    /\ pc = "reading" /\ idx = Len(input_file[1].rows)
    /\ pc' = "dedup"
    /\ UNCHANGED <<exit_code, dateVars, convVars, impVars>>

\* lines 157-164
Deduplicate ==
    /\ pc = "dedup"
    /\ deduped' = DedupFrom(rows_out, 1, <<>>)
    /\ pc' = "write"
    /\ UNCHANGED <<exit_code, dateVars, input_file, no_category, idx, date_col,
                   amount_col, memo_col, rows_out, output_file, impVars>>

\* lines 166-173: the output file is written and main returns
WriteOutput ==
    /\ pc = "write"
    /\ output_file' = Some(deduped)
    /\ exit_code' = Some(0)
    /\ pc' = "exited"
    /\ UNCHANGED <<dateVars, input_file, no_category, idx, date_col, amount_col,
                   memo_col, rows_out, deduped, impVars>>

NextConvert == \/ InputMissing \/ OpenInput \/ ReadRow \/ EndOfRows
               \/ Deduplicate \/ WriteOutput

SpecConvert == InitConvert /\ [][NextConvert]_vars

(***************************************************************************)
(* Properties of the conversion stage                                      *)
(***************************************************************************)
Fieldnames == input_file[1].fieldnames
InputRows  == input_file[1].rows

\* the rows (by index, among the first n) whose date and amount both parse
\* under the resolved columns
ParsedRows(n) ==
    { i \in 1..n :
        /\ _parse_date(RowGet(Fieldnames, InputRows[i], date_col)) # None
        /\ _parse_amount(RowGet(Fieldnames, InputRows[i], amount_col)) # None }

\* the k-th smallest element of a set of numbers
Kth(S, k) == CHOOSE i \in S : Cardinality({ j \in S : j <= i }) = k

ColumnsResolved == date_col # None /\ amount_col # None

\* C2: after deduplication the output holds exactly one record per distinct
\* key (date, signed amount, first 100 characters of the memo); it is the
\* first record of that key in input order, and the survivors keep their
\* relative input order.
C2_DedupKeepsFirstOfEachKey ==
    pc \in {"write", "exited"} /\ exit_code # Some(1) =>
        LET Key(r) == <<r.Date, r.Amount, Prefix(r.Memo, KEY_MEMO_LEN)>>
            firsts == { i \in 1..Len(rows_out) :
                          \A j \in 1..(i - 1) : Key(rows_out[j]) # Key(rows_out[i]) }
        IN  /\ Len(deduped) = Cardinality(firsts)
            /\ \A k \in 1..Len(deduped) : deduped[k] = rows_out[Kth(firsts, k)]
            /\ \A i \in 1..Len(rows_out) :
                 Cardinality({ k \in 1..Len(deduped) : Key(deduped[k]) = Key(rows_out[i]) }) = 1

\* C2 witness: two records that differ only after the 100th character of the
\* memo were collapsed to the first.
C2_Witness ==
    /\ pc = "exited" /\ exit_code = Some(0)
    /\ Len(rows_out) = 2 /\ Len(deduped) = 1
    /\ rows_out[1].Memo # rows_out[2].Memo
    /\ deduped[1] = rows_out[1]

\* C3: a stored amount is the parsed amount (positive) only when the parsed
\* amount is strictly positive and the description contains return, refund
\* or reimbursement in any letter case; in every other case it is minus the
\* absolute value of the parsed amount, and a parsed zero is stored as zero.
C3_SignConvention ==
    [][ (pc = "reading" /\ Len(rows_out') = Len(rows_out) + 1) =>
          \E parsed \in { Head(_parse_amount(RowGet(Fieldnames, InputRows[idx + 1], amount_col'))) },
             desc   \in { Lower(RowGet(Fieldnames, InputRows[idx + 1], memo_col')) },
             stored \in { rows_out'[Len(rows_out')].Amount } :
           \E memo    \in { Prefix(Strip(desc), MEMO_MAX) },
              keyword \in { \E w \in { <<"r","e","t","u","r","n">>, <<"r","e","f","u","n","d">>, <<"r","e","i","m","b","u","r","s","e","m","e","n","t">> } :
                               Contains(w, desc) } :
              /\ stored.n > 0 => (parsed.n > 0 /\ keyword /\ stored = parsed)
              /\ ~(parsed.n > 0 /\ keyword)
                    => stored = [n |-> 0 - Abs(parsed.n), k |-> parsed.k]
              /\ (parsed.n > 0 /\ \E w \in { <<"r","e","t","u","r","n">>, <<"r","e","f","u","n","d">>, <<"r","e","i","m","b","u","r","s","e","m","e","n","t">> } :
                                     Contains(w, memo))
                    => stored = parsed
              /\ parsed.n = 0 => stored = [n |-> 0, k |-> 0] ]_vars

\* C3 witness: the output holds a refund kept positive, and an outflow stored
\* as a negative amount.
C3_Witness ==
    /\ pc = "exited" /\ exit_code = Some(0)
    /\ \E i, j \in 1..Len(rows_out) : rows_out[i].Amount.n > 0 /\ rows_out[j].Amount.n < 0

\* C4: for every existing input file whose column names do not allow the
\* date or the amount column to be resolved, the run ends with exit code 1
\* and writes no output file, whatever the number of data rows; exit code 0
\* occurs only when both columns were resolved.
C4_UnresolvedSchemaExits1 ==
    (pc = "exited" /\ input_file # None) =>
        /\ (\/ _find_column(Fieldnames, DATE_COLUMNS) = None
            \/ _find_column(Fieldnames, AMOUNT_COLUMNS) = None)
              => (exit_code = Some(1) /\ output_file = None)
        /\ exit_code = Some(0) => ColumnsResolved

\* C8: once the columns are resolved, a row whose date or amount does not
\* parse is dropped without ending the run and without affecting any other
\* row: the records built so far are exactly those of the rows read so far
\* whose date and amount parsed, in order, the run reads every row and ends
\* with exit code 0, and with at least one such row the output has fewer
\* records than the input has rows.
C8_BadRowsSkippedOnly ==
    (input_file # None /\ ColumnsResolved) =>
      \E parsed \in { ParsedRows(idx) } :
        /\ Len(rows_out) = Cardinality(parsed)
        /\ \A k \in 1..Len(rows_out) :
             \E row \in { InputRows[Kth(parsed, k)] } :
                 /\ rows_out[k].Date = Head(_parse_date(RowGet(Fieldnames, row, date_col)))
                 /\ Abs(rows_out[k].Amount.n)
                      = Abs(Head(_parse_amount(RowGet(Fieldnames, row, amount_col))).n)
        /\ pc \in {"dedup", "write", "exited"} => idx = Len(InputRows)
        /\ pc = "exited" =>
             /\ exit_code = Some(0) /\ output_file = Some(deduped)
             /\ \A k \in 1..Len(deduped) : \E j \in 1..Len(rows_out) : deduped[k] = rows_out[j]
             /\ parsed # 1..Len(InputRows) => Len(output_file[1]) < Len(InputRows)

\* C8 witness: a file whose first row does not parse and whose second row
\* does was converted: one record out of two rows.
C8_Witness ==
    /\ pc = "exited" /\ exit_code = Some(0)
    /\ Len(InputRows) = 2 /\ ParsedRows(2) = {2}
    /\ Len(output_file[1]) = 1

(***************************************************************************)
(* ynab_import: constants and helpers.  A datetime.date is represented by  *)
(* its proleptic Gregorian ordinal, so that dates subtract and compare as  *)
(* in Python; amounts are integer milliunits.                              *)
(***************************************************************************)
\* Payee (lowercase) -> Category name
CATEGORY_MAPPING ==
    << [payee |-> <<"a","m","a","z","o","n",".","c","a">>, category |-> <<"O","n","l","i","n","e"," ","S","h","o","p","p","i","n","g">>],
       [payee |-> <<"s","o","b","e","y","s">>, category |-> <<"G","r","o","c","e","r","i","e","s">>],
       [payee |-> <<"t","i","m"," ","h","o","r","t","o","n","s">>, category |-> <<"D","i","n","i","n","g"," ","O","u","t">>],
       [payee |-> <<"p","a","y","r","o","l","l"," ","-"," ","e","m","p","l","o","y","e","r"," ","n","a","m","e">>, category |-> <<"I","n","c","o","m","e">>] >>
DEFAULT_CATEGORY_NAME == <<"U","n","c","a","t","e","g","o","r","i","z","e","d">>

\* line 139: the memo is cut to its first 500 characters
IMPORT_MEMO_MAX == 500

\* the default of YNAB_DUPLICATE_DAYS
DEFAULT_DAYS_TOLERANCE == 5

RECURSIVE Pow10(_)
Pow10(k) == IF k = 0 THEN 1 ELSE 10 * Pow10(k - 1)

\* int(x * 1000) for a decimal x: truncation toward zero
IntTimes1000(x) ==
    IF x.k <= 3 THEN x.n * Pow10(3 - x.k)
    ELSE IF x.n >= 0 THEN x.n \div Pow10(x.k - 3)
         ELSE 0 - ((0 - x.n) \div Pow10(x.k - 3))

\* lines 76-91: the (date, amount, row) of a CSV row, or None when the row is
\* passed over
ParseCsvRow(row) ==
    CHOOSE parsed \in
      { IF Len(date_str) = 0 THEN None
        ELSE IF date_obj = None THEN None
        ELSE IF amount_val = None THEN None
        ELSE Some([date   |-> ToOrdinal(Head(date_obj)),
                   amount |-> IntTimes1000(Head(amount_val)),
                   row    |-> row]) :
          date_str   \in { Strip(row.Date) },
          date_obj   \in { IF strptime(Strip(row.Date), FmtISO) # None
                           THEN strptime(Strip(row.Date), FmtISO)
                           ELSE strptime(Strip(row.Date), FmtUS) },
          amount_val \in { float(Remove(Strip(row.Amount), <<",">>)) } } : TRUE

RECURSIVE ReadCsvFrom(_, _, _)
\* lines 70-95: the first pass over the CSV rows
ReadCsvFrom(rows, i, acc) ==
    IF i > Len(rows) THEN acc
    ELSE LET p == ParseCsvRow(rows[i]) IN
         IF p = None THEN ReadCsvFrom(rows, i + 1, acc)
         ELSE ReadCsvFrom(rows, i + 1,
                [ csv_rows |-> Append(acc.csv_rows, Head(p)),
                  min |-> IF acc.min = None \/ Head(p).date < Head(acc.min)
                          THEN Some(Head(p).date) ELSE acc.min,
                  max |-> IF acc.max = None \/ Head(p).date > Head(acc.max)
                          THEN Some(Head(p).date) ELSE acc.max ])

\* not the code's test: hidden categories enter the map as well
CategoryVisibleIgnoringHidden(cat) == ~cat.deleted

\* line 62: the categories that enter the name -> id map
CategoryVisible(cat) == ~cat.deleted /\ ~cat.hidden

RECURSIVE Flatten(_)
Flatten(groups) == IF Len(groups) = 0 THEN <<>> ELSE Head(groups) \o Flatten(Tail(groups))

RECURSIVE CategoryMapFrom(_, _, _)
\* lines 59-63: category_id_map, a later category of the same lower-cased
\* name replacing an earlier one
CategoryMapFrom(cats, i, acc) ==
    IF i > Len(cats) THEN acc
    ELSE IF CategoryVisible(cats[i])
         THEN CategoryMapFrom(cats, i + 1, (Lower(cats[i].name) :> cats[i].id) @@ acc)
         ELSE CategoryMapFrom(cats, i + 1, acc)

\* dict.get(key)
DictGet(d, key) == IF key \in DOMAIN d THEN Some(d[key]) ELSE None

\* not the code's window: it starts from the latest candidate date
SinceDateFromMax(min_date, max_date, tolerance) == max_date - tolerance

\* line 100: min_csv_date - timedelta(days=DAYS_TOLERANCE)
SinceDate(min_date, max_date, tolerance) == min_date - tolerance

\* the date of a ledger transaction as lines 107-112 read it: isoformat(),
\* its first ten characters, strptime
TxDate(tx) == strptime(Prefix(strftime_iso(tx.date), 10), FmtISO)

\* the remote ledger's list-transactions-by-account(since_date): the
\* transactions dated on or after since_date, in ledger order
get_transactions_by_account(txs, since) ==
    SelectSeq(txs, LAMBDA tx : ToOrdinal(tx.date) >= since)

RECURSIVE ExistingByAmountFrom(_, _, _)
\* lines 105-117: amount -> [date, ...]
ExistingByAmountFrom(txs, i, acc) ==
    IF i > Len(txs) THEN acc
    ELSE LET amt == txs[i].amount
             dt  == TxDate(txs[i])
         IN  IF dt = None THEN ExistingByAmountFrom(txs, i + 1, acc)
             ELSE IF amt \in DOMAIN acc
             THEN ExistingByAmountFrom(txs, i + 1,
                      [acc EXCEPT ![amt] = Append(@, ToOrdinal(Head(dt)))])
             ELSE ExistingByAmountFrom(txs, i + 1,
                      (amt :> <<ToOrdinal(Head(dt))>>) @@ acc)

\* not the code's test: the difference compared without abs()
WithinToleranceOneSided(import_date, existing_date, tolerance) ==
    import_date - existing_date <= tolerance

\* line 126: abs((import_date - existing_date).days) <= DAYS_TOLERANCE
WithinTolerance(import_date, existing_date, tolerance) ==
    Abs(import_date - existing_date) <= tolerance

\* lines 122-128
is_duplicate(existing, import_date, import_amount, tolerance) ==
    IF import_amount \notin DOMAIN existing THEN FALSE
    ELSE \E k \in 1..Len(existing[import_amount]) :
            WithinTolerance(import_date, existing[import_amount][k], tolerance)

\* lines 142-147: the category name of a row
CategoryName(row) ==
    LET row_category == Strip(row.Category)
        payee_lower  == Lower(Strip(row.Payee))
        hits == { i \in 1..Len(CATEGORY_MAPPING) : CATEGORY_MAPPING[i].payee = payee_lower }
    IN  IF Len(row_category) > 0 THEN row_category
        ELSE IF hits # {} THEN CATEGORY_MAPPING[Least(hits)].category
        ELSE DEFAULT_CATEGORY_NAME

\* lines 138-161: ynab.NewTransaction for a row that is no duplicate
NewTransaction(c, id_map) ==
    [ date        |-> c.date,
      amount      |-> c.amount,
      payee_name  |-> IF Len(Strip(c.row.Payee)) > 0 THEN Some(Strip(c.row.Payee)) ELSE None,
      memo        |-> IF Len(Strip(c.row.Memo)) > 0
                      THEN Some(Prefix(Strip(c.row.Memo), IMPORT_MEMO_MAX)) ELSE None,
      category_id |-> DictGet(id_map, Lower(CategoryName(c.row))),
      cleared     |-> "uncleared",
      approved    |-> FALSE ]

RECURSIVE BuildFrom(_, _, _, _, _, _)
\* lines 131-162: the loop that builds transactions_to_import
BuildFrom(cands, i, existing, id_map, tolerance, acc) ==
    IF i > Len(cands) THEN acc
    ELSE IF is_duplicate(existing, cands[i].date, cands[i].amount, tolerance)
         THEN BuildFrom(cands, i + 1, existing, id_map, tolerance,
                        [acc EXCEPT !.skipped = @ + 1])
         ELSE BuildFrom(cands, i + 1, existing, id_map, tolerance,
                        [acc EXCEPT !.txs = Append(@, NewTransaction(cands[i], id_map))])

(***************************************************************************)
(* ynab_import.main and the remote ledger it talks to                      *)
(***************************************************************************)
\* the largest number of rows of the CSV file
MaxCsvRows == 2

CsvRowChoices ==
    { [Date |-> <<"2","0","2","4","-","0","3","-","1","0">>, Payee |-> <<"A","m","a","z","o","n",".","c","a">>, Memo |-> <<"k","i","d"," ","t","o","y">>,
       Amount |-> <<"-","5","0",".","0">>, Category |-> <<"g","r","o","c","e","r","i","e","s">>],
      [Date |-> <<"0","3","/","0","5","/","2","0","2","4">>, Payee |-> <<"A","m","a","z","o","n",".","c","a">>, Memo |-> <<>>,
       Amount |-> <<"-","2","0",".","0">>, Category |-> <<>>],
      [Date |-> <<"2","0","2","4","-","0","3","-","1","0">>, Payee |-> <<>>, Memo |-> <<"O","r","d","e","r"," ","2","0","2","4","-","0","3","-","1","0">>,
       Amount |-> <<"-","5","0",".","0">>, Category |-> <<"N","o"," ","S","u","c","h">>],
      [Date |-> <<"N","/","A">>, Payee |-> <<"A","m","a","z","o","n",".","c","a">>, Memo |-> <<"t","o","y">>,
       Amount |-> <<"-","5","0",".","0">>, Category |-> <<>>],
      [Date |-> <<"2","0","2","4","-","0","3","-","1","0">>, Payee |-> <<"A","m","a","z","o","n",".","c","a">>, Memo |-> <<"t","o","y">>,
       Amount |-> <<"N","/","A">>, Category |-> <<>>],
      [Date |-> <<>>, Payee |-> <<"A","m","a","z","o","n",".","c","a">>, Memo |-> <<"t","o","y">>,
       Amount |-> <<"-","5","0",".","0">>, Category |-> <<>>] }

CsvFiles == UNION { [1..n -> CsvRowChoices] : n \in 0..MaxCsvRows }

Tolerances == {0, 2, DEFAULT_DAYS_TOLERANCE}

LedgerUniverse ==
    << [amount |-> -50000, date |-> [y |-> 2024, m |-> 3, d |-> 13]],
       [amount |-> -20000, date |-> [y |-> 2024, m |-> 3, d |-> 10]],
       [amount |-> -20000, date |-> [y |-> 2024, m |-> 3, d |-> 4]] >>

\* every sub-sequence of the universe
Ledgers ==
    { SelectSeq([i \in 1..Len(LedgerUniverse) |-> <<i, LedgerUniverse[i]>>],
                LAMBDA p : p[1] \in S) : S \in SUBSET (1..Len(LedgerUniverse)) }

LedgerChoices == { [i \in 1..Len(l) |-> l[i][2]] : l \in Ledgers }

CategoryGroupChoices ==
    { << << [name |-> <<"G","r","o","c","e","r","i","e","s">>, id |-> "cat-1", hidden |-> FALSE, deleted |-> FALSE],
            [name |-> <<"O","n","l","i","n","e"," ","S","h","o","p","p","i","n","g">>, id |-> "cat-2", hidden |-> TRUE, deleted |-> FALSE] >>,
         << [name |-> <<"g","r","o","c","e","r","i","e","s">>, id |-> "cat-3", hidden |-> FALSE, deleted |-> TRUE] >> >>,
      << << [name |-> <<"O","n","l","i","n","e"," ","S","h","o","p","p","i","n","g">>, id |-> "cat-2", hidden |-> FALSE, deleted |-> FALSE] >> >> }

InitImport ==
    /\ pc = "start"
    /\ exit_code = None
    /\ config_ok \in BOOLEAN
    /\ csv_file \in {None} \cup { Some(f) : f \in CsvFiles }
    /\ IF config_ok /\ csv_file # None
       THEN /\ DAYS_TOLERANCE \in Tolerances
            /\ ledger \in LedgerChoices
            /\ remote_categories \in CategoryGroupChoices
       ELSE /\ DAYS_TOLERANCE = DEFAULT_DAYS_TOLERANCE
            /\ ledger = <<>>
            /\ remote_categories = <<>>
    /\ requests = <<>>
    /\ category_id_map = <<>> /\ csv_rows = <<>>
    /\ min_csv_date = None /\ max_csv_date = None
    /\ existing_response = None /\ existing_by_amount = <<>>
    /\ transactions_to_import = <<>> /\ skipped_duplicates = 0
    /\ date_call = RawCall /\ date_input = <<>> /\ date_result = None
    /\ input_file = None /\ no_category = FALSE /\ idx = 0
    /\ date_col = None /\ amount_col = None /\ memo_col = None
    /\ rows_out = <<>> /\ deduped = <<>> /\ output_file = None

Request(op, ok, since, batch) == [op |-> op, ok |-> ok, since |-> since, batch |-> batch]

\* lines 41-44
ConfigMissing ==
    /\ pc = "start" /\ ~config_ok
    /\ exit_code' = Some(1) /\ pc' = "exited"
    /\ UNCHANGED <<dateVars, convVars, impVars>>

\* lines 46-48
CsvMissing ==
    /\ pc = "start" /\ config_ok /\ csv_file = None
    /\ exit_code' = Some(1) /\ pc' = "exited"
    /\ UNCHANGED <<dateVars, convVars, impVars>>

\* lines 50-53
OpenClient ==
    /\ pc = "start" /\ config_ok /\ csv_file # None
    /\ pc' = "fetch_categories"
    /\ UNCHANGED <<exit_code, dateVars, convVars, impVars>>

\* lines 56-64: get_categories answers
FetchCategoriesOk ==
    /\ pc = "fetch_categories"
    /\ requests' = Append(requests, Request("get_categories", TRUE, None, <<>>))
    /\ category_id_map' = CategoryMapFrom(Flatten(remote_categories), 1, <<>>)
    /\ pc' = "read_csv"
    /\ UNCHANGED <<exit_code, dateVars, convVars, config_ok, csv_file, DAYS_TOLERANCE,
                   ledger, remote_categories, csv_rows, min_csv_date, max_csv_date,
                   existing_response, existing_by_amount, transactions_to_import,
                   skipped_duplicates>>

\* not the code's handler: the run goes on after a failed get_categories
FetchCategoriesFailsContinues ==
    /\ pc = "fetch_categories"
    /\ requests' = Append(requests, Request("get_categories", FALSE, None, <<>>))
    /\ pc' = "read_csv"
    /\ UNCHANGED <<exit_code, dateVars, convVars, config_ok, csv_file, DAYS_TOLERANCE,
                   ledger, remote_categories, category_id_map, csv_rows, min_csv_date,
                   max_csv_date, existing_response, existing_by_amount,
                   transactions_to_import, skipped_duplicates>>

\* lines 65-67: get_categories raises ApiException
FetchCategoriesFails ==
    /\ pc = "fetch_categories"
    /\ requests' = Append(requests, Request("get_categories", FALSE, None, <<>>))
    /\ exit_code' = Some(1) /\ pc' = "exited"
    /\ UNCHANGED <<dateVars, convVars, config_ok, csv_file, DAYS_TOLERANCE,
                   ledger, remote_categories, category_id_map, csv_rows, min_csv_date,
                   max_csv_date, existing_response, existing_by_amount,
                   transactions_to_import, skipped_duplicates>>

\* lines 69-95
ReadCsv ==
    /\ pc = "read_csv"
    /\ \E r \in { ReadCsvFrom(csv_file[1], 1,
                              [csv_rows |-> <<>>, min |-> None, max |-> None]) } :
          /\ csv_rows' = r.csv_rows
          /\ min_csv_date' = r.min
          /\ max_csv_date' = r.max
    /\ pc' = "fetch_existing"
    /\ UNCHANGED <<exit_code, dateVars, convVars, config_ok, csv_file, DAYS_TOLERANCE,
                   ledger, remote_categories, requests, category_id_map,
                   existing_response, existing_by_amount, transactions_to_import,
                   skipped_duplicates>>

\* lines 98-99: no row parsed, nothing is fetched
NoCandidates ==
    /\ pc = "fetch_existing" /\ min_csv_date = None
    /\ pc' = "build"
    /\ UNCHANGED <<exit_code, dateVars, convVars, impVars>>

\* lines 100-118: get_transactions_by_account answers
FetchExistingOk ==
    /\ pc = "fetch_existing" /\ min_csv_date # None
    /\ \E since \in { SinceDate(min_csv_date[1], max_csv_date[1], DAYS_TOLERANCE) } :
       \E txs \in { get_transactions_by_account(ledger, since) } :
          /\ requests' = Append(requests,
                 Request("get_transactions_by_account", TRUE, Some(since), <<>>))
          /\ existing_response' = Some(txs)
          /\ existing_by_amount' = ExistingByAmountFrom(txs, 1, <<>>)
    /\ pc' = "build"
    /\ UNCHANGED <<exit_code, dateVars, convVars, config_ok, csv_file, DAYS_TOLERANCE,
                   ledger, remote_categories, category_id_map, csv_rows, min_csv_date,
                   max_csv_date, transactions_to_import, skipped_duplicates>>

\* not the code's handler: a failed get_transactions_by_account ends the run
FetchExistingFailsFatal ==
    /\ pc = "fetch_existing" /\ min_csv_date # None
    /\ requests' = Append(requests,
           Request("get_transactions_by_account", FALSE,
                   Some(SinceDate(min_csv_date[1], max_csv_date[1], DAYS_TOLERANCE)), <<>>))
    /\ exit_code' = Some(1) /\ pc' = "exited"
    /\ UNCHANGED <<dateVars, convVars, config_ok, csv_file, DAYS_TOLERANCE,
                   ledger, remote_categories, category_id_map, csv_rows, min_csv_date,
                   max_csv_date, existing_response, existing_by_amount,
                   transactions_to_import, skipped_duplicates>>

\* lines 119-120: get_transactions_by_account raises ApiException; a warning
\* is printed and the run goes on
FetchExistingFails ==
    /\ pc = "fetch_existing" /\ min_csv_date # None
    /\ requests' = Append(requests,
           Request("get_transactions_by_account", FALSE,
                   Some(SinceDate(min_csv_date[1], max_csv_date[1], DAYS_TOLERANCE)), <<>>))
    /\ pc' = "build"
    /\ UNCHANGED <<exit_code, dateVars, convVars, config_ok, csv_file, DAYS_TOLERANCE,
                   ledger, remote_categories, category_id_map, csv_rows, min_csv_date,
                   max_csv_date, existing_response, existing_by_amount,
                   transactions_to_import, skipped_duplicates>>

\* lines 130-165
BuildTransactions ==
    /\ pc = "build"
    /\ \E r \in { BuildFrom(csv_rows, 1, existing_by_amount, category_id_map,
                            DAYS_TOLERANCE, [txs |-> <<>>, skipped |-> 0]) } :
          /\ transactions_to_import' = r.txs
          /\ skipped_duplicates' = r.skipped
    /\ pc' = "submit"
    /\ UNCHANGED <<exit_code, dateVars, convVars, config_ok, csv_file, DAYS_TOLERANCE,
                   ledger, remote_categories, requests, category_id_map, csv_rows,
                   min_csv_date, max_csv_date, existing_response, existing_by_amount>>

\* lines 167-169
NothingToImport ==
    /\ pc = "submit" /\ Len(transactions_to_import) = 0
    /\ exit_code' = Some(0) /\ pc' = "exited"
    /\ UNCHANGED <<dateVars, convVars, impVars>>

\* lines 171-178: create_transaction answers; the ledger stores the batch
CreateOk ==
    /\ pc = "submit" /\ Len(transactions_to_import) > 0
    /\ requests' = Append(requests,
           Request("create_transaction", TRUE, None, transactions_to_import))
    /\ exit_code' = Some(0) /\ pc' = "exited"
    /\ UNCHANGED <<dateVars, convVars, config_ok, csv_file, DAYS_TOLERANCE,
                   ledger, remote_categories, category_id_map, csv_rows, min_csv_date,
                   max_csv_date, existing_response, existing_by_amount,
                   transactions_to_import, skipped_duplicates>>

\* lines 179-181: create_transaction raises ApiException
CreateFails ==
    /\ pc = "submit" /\ Len(transactions_to_import) > 0
    /\ requests' = Append(requests,
           Request("create_transaction", FALSE, None, transactions_to_import))
    /\ exit_code' = Some(1) /\ pc' = "exited"
    /\ UNCHANGED <<dateVars, convVars, config_ok, csv_file, DAYS_TOLERANCE,
                   ledger, remote_categories, category_id_map, csv_rows, min_csv_date,
                   max_csv_date, existing_response, existing_by_amount,
                   transactions_to_import, skipped_duplicates>>

NextImport == \/ ConfigMissing \/ CsvMissing \/ OpenClient
              \/ FetchCategoriesOk \/ FetchCategoriesFails
              \/ ReadCsv \/ NoCandidates \/ FetchExistingOk \/ FetchExistingFails
              \/ BuildTransactions \/ NothingToImport \/ CreateOk \/ CreateFails

SpecImport == InitImport /\ [][NextImport]_vars

(***************************************************************************)
(* Properties of the import run                                            *)
(***************************************************************************)
\* the build loop has run (or the run ended before it)
Classified == pc \in {"submit", "exited"}

\* the ledger transactions the run loaded
Loaded == IF existing_response = None THEN <<>> ELSE existing_response[1]

\* candidate i has, in txs, a transaction of its amount dated at most the
\* tolerance away, earlier or later
HasMatchIn(txs, i) ==
    \E k \in 1..Len(txs) :
        /\ txs[k].amount = csv_rows[i].amount
        /\ ToOrdinal(txs[k].date) - csv_rows[i].date <= DAYS_TOLERANCE
        /\ csv_rows[i].date - ToOrdinal(txs[k].date) <= DAYS_TOLERANCE

NonDuplicates(txs) == { i \in 1..Len(csv_rows) : ~HasMatchIn(txs, i) }

RequestsOf(op) == { k \in 1..Len(requests) : requests[k].op = op }
FailedRequests == { k \in 1..Len(requests) : ~requests[k].ok }

\* the (date, amount) pairs of a batch, in order
DatesAmounts(batch) == [k \in 1..Len(batch) |-> <<batch[k].date, batch[k].amount>>]

\* the (date, amount) pairs of the candidates in I, in CSV order
CandidatesIn(I) ==
    LET sel == SelectSeq([i \in 1..Len(csv_rows) |-> i], LAMBDA i : i \in I)
    IN  [k \in 1..Len(sel) |-> <<csv_rows[sel[k]].date, csv_rows[sel[k]].amount>>]

\* C1: a candidate is skipped as a duplicate iff some loaded ledger
\* transaction has exactly its amount and a date at most DAYS_TOLERANCE days
\* before or after its own; the others, and only they, are submitted
C1_DuplicateIffSameAmountWithinTolerance ==
    Classified =>
        /\ DatesAmounts(transactions_to_import) = CandidatesIn(NonDuplicates(Loaded))
        /\ skipped_duplicates = Len(csv_rows) - Cardinality(NonDuplicates(Loaded))

\* the candidate 2024-03-10 / -50.00 is skipped with tolerance 5 because of
\* the loaded transaction 2024-03-13 / -50.00
C1_Witness ==
    /\ pc = "submit"
    /\ DAYS_TOLERANCE = 5
    /\ Len(csv_rows) = 1
    /\ csv_rows[1].date = ToOrdinal([y |-> 2024, m |-> 3, d |-> 10])
    /\ csv_rows[1].amount = -50000
    /\ Loaded = << [amount |-> -50000, date |-> [y |-> 2024, m |-> 3, d |-> 13]] >>
    /\ skipped_duplicates = 1
    /\ transactions_to_import = <<>>

\* C5: a failed get_categories or create_transaction ends the run with exit
\* code 1, the former before any CSV row is read or any other request made; a
\* failed get_transactions_by_account leaves the run going with an empty
\* duplicate index, so that nothing is skipped and every candidate is
\* submitted
C5_RemoteFailurePolicy ==
    /\ \A k \in FailedRequests :
          requests[k].op = "get_categories" =>
              /\ pc = "exited" /\ exit_code = Some(1)
              /\ csv_rows = <<>> /\ min_csv_date = None
              /\ Len(requests) = 1
    /\ \A k \in FailedRequests :
          requests[k].op = "create_transaction" =>
              pc = "exited" /\ exit_code = Some(1)
    /\ \A k \in FailedRequests :
          requests[k].op = "get_transactions_by_account" =>
              /\ existing_by_amount = <<>>
              /\ k = Len(requests) => pc \in {"build", "submit"} /\ exit_code = None
              /\ Classified =>
                    /\ skipped_duplicates = 0
                    /\ DatesAmounts(transactions_to_import)
                          = CandidatesIn(1..Len(csv_rows))
              /\ pc = "exited" =>
                    /\ k + 1 = Len(requests)
                    /\ requests[k + 1].op = "create_transaction"
                    /\ requests[k + 1].batch = transactions_to_import

\* the fetch of existing transactions failed, the ledger holds a match of a
\* candidate, and the run ended normally having submitted every candidate
C5_Witness ==
    /\ pc = "exited" /\ exit_code = Some(0)
    /\ \E k \in FailedRequests : requests[k].op = "get_transactions_by_account"
    /\ \E i \in 1..Len(csv_rows) : HasMatchIn(ledger, i)
    /\ requests[Len(requests)].op = "create_transaction"
    /\ Len(requests[Len(requests)].batch) = Len(csv_rows)

\* C6 as stated: whichever remote call fails, the run halts there and no
\* later request is issued
C6_EveryFailureHalts ==
    \A k \in FailedRequests : k = Len(requests) /\ pc = "exited"

\* C6: no request is made twice; a failed get_categories or
\* create_transaction is the last request of the run, which ends with exit
\* code 1; the only request ever issued after a failed one is the
\* create_transaction that follows a failed get_transactions_by_account
C6_FailFastExceptFetchExisting ==
    /\ \A j, k \in 1..Len(requests) : requests[j].op = requests[k].op => j = k
    /\ \A k \in FailedRequests :
          requests[k].op # "get_transactions_by_account" =>
              k = Len(requests) /\ pc = "exited" /\ exit_code = Some(1)
    /\ \A k \in FailedRequests : \A j \in (k + 1)..Len(requests) :
          /\ requests[k].op = "get_transactions_by_account"
          /\ requests[j].op = "create_transaction"

\* a failed get_transactions_by_account followed by a create_transaction
\* that fails as well
C6_Witness ==
    /\ pc = "exited" /\ exit_code = Some(1)
    /\ Len(requests) = 3
    /\ requests[2].op = "get_transactions_by_account" /\ ~requests[2].ok
    /\ requests[3].op = "create_transaction" /\ ~requests[3].ok

\* the identifier of the non-deleted, non-hidden category whose name equals
\* the row's category name up to case
MatchingCategoryIds(row) ==
    LET cats == Flatten(remote_categories)
    IN  { cats[j].id : j \in { j \in 1..Len(cats) :
                                 /\ ~cats[j].deleted /\ ~cats[j].hidden
                                 /\ Lower(cats[j].name) = Lower(CategoryName(row)) } }

\* the rows of the candidates in I, in CSV order
RowsIn(I) ==
    LET sel == SelectSeq([i \in 1..Len(csv_rows) |-> i], LAMBDA i : i \in I)
    IN  [k \in 1..Len(sel) |-> csv_rows[sel[k]].row]

\* C9: at most one create_transaction request is made; its batch is the
\* candidates not classified duplicate, each once and in CSV order, a
\* candidate without a matching category carrying no category id; skipped
\* plus submitted is the number of candidates; no request is made when
\* nothing is left to submit
C9_SingleBatchOfNonDuplicates ==
    /\ Cardinality(RequestsOf("create_transaction")) <= 1
    /\ \A k \in RequestsOf("create_transaction") :
          LET batch == requests[k].batch
              rows  == RowsIn(NonDuplicates(Loaded))
          IN  /\ Len(batch) > 0
              /\ DatesAmounts(batch) = CandidatesIn(NonDuplicates(Loaded))
              /\ skipped_duplicates + Len(batch) = Len(csv_rows)
              /\ \A n \in 1..Len(batch) :
                    IF MatchingCategoryIds(rows[n]) = {}
                    THEN batch[n].category_id = None
                    ELSE /\ batch[n].category_id # None
                         /\ batch[n].category_id[1] \in MatchingCategoryIds(rows[n])
    /\ pc = "exited" /\ exit_code = Some(0) =>
          (RequestsOf("create_transaction") = {} <=> NonDuplicates(Loaded) = {})

\* of two candidates one is skipped and the other is submitted without a
\* category id, its category being hidden on the remote side
C9_Witness ==
    /\ pc = "exited"
    /\ Len(csv_rows) = 2 /\ skipped_duplicates = 1
    /\ \E k \in RequestsOf("create_transaction") :
          /\ Len(requests[k].batch) = 1
          /\ requests[k].batch[1].category_id = None
          /\ \E c \in { Flatten(remote_categories)[j] : j \in 1..Len(Flatten(remote_categories)) } :
                c.hidden /\ Lower(c.name) = <<"o","n","l","i","n","e"," ","s","h","o","p","p","i","n","g">>

\* C10: when the fetch succeeded, the candidates with a match among the
\* loaded transactions are those with a match in the whole ledger, the
\* skipped count is their number, and no ledger transaction dated before the
\* requested since-date is within tolerance of a candidate
C10_WindowLosesNoDuplicate ==
    existing_response # None /\ DAYS_TOLERANCE >= 0 =>
        /\ NonDuplicates(Loaded) = NonDuplicates(ledger)
        /\ Classified =>
              skipped_duplicates = Len(csv_rows) - Cardinality(NonDuplicates(ledger))
        /\ \A r \in RequestsOf("get_transactions_by_account") :
           \A k \in 1..Len(ledger) :
              ToOrdinal(ledger[k].date) < requests[r].since[1] =>
                  \A i \in 1..Len(csv_rows) :
                      \/ csv_rows[i].date - ToOrdinal(ledger[k].date) > DAYS_TOLERANCE
                      \/ ToOrdinal(ledger[k].date) - csv_rows[i].date > DAYS_TOLERANCE

\* the window left a ledger transaction out and a candidate was skipped
C10_Witness ==
    /\ pc = "submit"
    /\ existing_response # None
    /\ Len(existing_response[1]) < Len(ledger)
    /\ skipped_duplicates >= 1
====
